---- MODULE Spec2Model ----
(***************************************************************************)
(* pathlib-artifactory: ArtifactoryPathInfo (the lazily queried status     *)
(* cache) and ArtifactoryPath (release 0.4.1, src/src/), together with the *)
(* earlier PathBase revision of ArtifactoryPath (src/pathlib_artifactory). *)
(*                                                                         *)
(* Strings are sequences of tokens; "+" on Python strings is \o.  The      *)
(* token "artifactory" stands for that word, "h" for "http://host:port",   *)
(* every other token for a word containing neither "/" nor "artifactory".  *)
(* Python's None is the empty tuple and any other value v is <<v>>.        *)
(***************************************************************************)
EXTENDS Integers, Sequences, FiniteSets, TLC

VARIABLES
    cur,      \* the ArtifactoryPath being used: _segments, base_uri, _info
    gen,      \* whether a generator returned by iterdir() awaits iteration
    yielded,  \* the child paths produced by the last iteration of iterdir()
    ret,      \* the outcome of the last call: value returned or error raised
    reqs,     \* the HTTP requests the last call sent, in order
    other,    \* the object an ArtifactoryPath is compared with
    uri,      \* the string handed to from_uri()
    parsed,   \* the ArtifactoryPath built by from_uri(), or its failure
    rendered, \* the string as_uri() returned for the parsed path
    lazy      \* history of the walk: the info property made the cache at its top

vars == <<cur, gen, yielded, ret, reqs, other, uri, parsed, rendered, lazy>>

-----------------------------------------------------------------------------
(* Bounds *)

MaxGets == 2        \* metadata GETs one status cache may send
MaxChildren == 2    \* entries in one directory listing
MaxDepth == 1       \* directory levels walked below the first path
MaxLen == 6         \* tokens in a string handed to from_uri()

-----------------------------------------------------------------------------
(* Python values *)

None == <<>>
Some(v) == <<v>>
True == Some(TRUE)
False == Some(FALSE)

\* Python truth value of None, True or False
Truthy(v) == v = True

\* int(s) for the decimal strings the storage API sends as "size"
int(s) ==
    CASE s = "0" -> 0
      [] s = "7" -> 7
      [] s = "42" -> 42

-----------------------------------------------------------------------------
(* Strings *)

Marker == <<"/", "artifactory", "/">>
ApiStorage == <<"/", "api", "/", "storage">>
BASE_URI == <<"h", "/", "artifactory">>

startswith(s, prefix) ==
    /\ Len(prefix) <= Len(s)
    /\ SubSeq(s, 1, Len(prefix)) = prefix

endswith(s, suffix) ==
    /\ Len(suffix) <= Len(s)
    /\ SubSeq(s, Len(s) - Len(suffix) + 1, Len(s)) = suffix

\* s.rfind(sub): the highest index instead of the lowest
find_last(s, sub) ==
    LET hits == {i \in 0..(Len(s) - Len(sub)) : SubSeq(s, i + 1, i + Len(sub)) = sub}
    IN  IF hits = {} THEN -1 ELSE CHOOSE i \in hits : \A j \in hits : i >= j

\* s.find(sub): the lowest 0-based index where sub occurs in s, or -1
find(s, sub) ==
    LET hits == {i \in 0..(Len(s) - Len(sub)) : SubSeq(s, i + 1, i + Len(sub)) = sub}
    IN  IF hits = {} THEN -1 ELSE CHOOSE i \in hits : \A j \in hits : i <= j

\* s.split(sep, 1): the list of one or two pieces
split1(s, sep) ==
    LET i == find(s, sep)
    IN  IF i = -1 THEN <<s>>
        ELSE <<SubSeq(s, 1, i), SubSeq(s, i + Len(sep) + 1, Len(s))>>

\* posixpath.split(p)[1]: what follows the last "/"
posixpath_basename(p) ==
    LET slashes == {i \in 1..Len(p) : p[i] = "/"}
        i == IF slashes = {} THEN 0 ELSE CHOOSE k \in slashes : \A j \in slashes : k >= j
    IN  SubSeq(p, i + 1, Len(p))

\* posixpath.join(a, *p)
RECURSIVE posixpath_join(_, _)
posixpath_join(a, p) ==
    IF p = <<>> THEN a
    ELSE LET b == Head(p)
             path == IF startswith(b, <<"/">>) THEN b
                     ELSE IF a = <<>> \/ endswith(a, <<"/">>) THEN a \o b
                     ELSE a \o <<"/">> \o b
         IN  posixpath_join(path, Tail(p))

-----------------------------------------------------------------------------
(* The storage API: what a GET may answer *)

SizeStrings == {"0", "42"}
ChildUris == {<<"/", "a">>, <<"/", "b">>}
Entries == [uri : ChildUris, folder : BOOLEAN]

Listings == UNION {[1..n -> Entries] : n \in 0..MaxChildren}

\* JSON bodies: the file shape has "size", the directory shape has not
FileBodies == [size : SizeStrings]
DirBodies == {[created |-> "t"]} \cup [children : Listings]

Responses ==
    [status_code : {200}, json : FileBodies \cup DirBodies]
        \cup [status_code : {404, 500}]

\* what the content endpoint may answer
ContentResponses == [status_code : {200, 404, 500}]

\* response.raise_for_status() raises
IsHTTPError(response) == response.status_code >= 400

\* a lookup that always gives the default
get_children_ignored(data, default) == default

\* data.get(key, default) for the key "children"
get_children(data, default) ==
    IF "children" \in DOMAIN data THEN data.children ELSE default

-----------------------------------------------------------------------------
(* ArtifactoryPathInfo *)

\* the record of one HTTP GET and of the status it was answered with
Request(u, stream, response) ==
    [uri |-> u, stream |-> stream, status_code |-> response.status_code]

\* ArtifactoryPathInfo(uri, exists, is_dir); the g_ fields are history only:
\* the GETs sent and those of them answered 2xx or 404, the same two counts
\* for the GETs sent by exists/is_dir/is_file, and the latest response
ArtifactoryPathInfo(u, e, d) ==
    [_uri |-> u, _exists |-> e, _is_dir |-> d, _size |-> None, _children |-> None,
     g_gets |-> 0, g_answered |-> 0, g_gets3 |-> 0, g_answered3 |-> 0,
     g_last |-> None]

\* session.get(self._uri) as seen by the cache's history
session_get(self, response) ==
    [self EXCEPT !.g_gets = @ + 1,
                 !.g_answered = @ + (IF response.status_code \in {200, 404} THEN 1 ELSE 0),
                 !.g_last = Some(response)]

\* The outcome of running (part of) a method: the cache afterwards, the
\* value returned, the exception raised, the responses not yet consumed
\* and the requests sent.
Outcome(self, val, raised, rs, sent) ==
    [self |-> self, val |-> val, raised |-> raised, rs |-> rs, sent |-> sent]

\* _query() that sets _exists before raise_for_status()
_query_marks_before_raise(self, rs) ==
    LET response == Head(rs)
        s == session_get(self, response)
        sent == <<Request(self._uri, FALSE, response)>>
    IN  IF response.status_code = 404
            THEN Outcome([s EXCEPT !._exists = False], None, "None", Tail(rs), sent)
        ELSE IF IsHTTPError(response)
            THEN Outcome([s EXCEPT !._exists = True], None, "HTTPError", Tail(rs), sent)
        ELSE LET data == response.json
                 isdir == ~ ("size" \in DOMAIN data)
             IN  Outcome([s EXCEPT !._exists = True,
                                   !._is_dir = Some(isdir),
                                   !._size = Some(IF isdir THEN 0 ELSE int(data.size)),
                                   !._children = Some(get_children(data, <<>>))],
                         None, "None", Tail(rs), sent)

\* _query() that leaves _exists as it was when the answer is 404
_query_forgets_404(self, rs) ==
    LET response == Head(rs)
        s == session_get(self, response)
        sent == <<Request(self._uri, FALSE, response)>>
    IN  IF response.status_code = 404
            THEN Outcome(s, None, "None", Tail(rs), sent)
        ELSE IF IsHTTPError(response)
            THEN Outcome(s, None, "HTTPError", Tail(rs), sent)
        ELSE LET data == response.json
                 isdir == ~ ("size" \in DOMAIN data)
             IN  Outcome([s EXCEPT !._exists = True,
                                   !._is_dir = Some(isdir),
                                   !._size = Some(IF isdir THEN 0 ELSE int(data.size)),
                                   !._children = Some(get_children(data, <<>>))],
                         None, "None", Tail(rs), sent)

_query(self, rs) ==
    LET response == Head(rs)
        s == session_get(self, response)
        sent == <<Request(self._uri, FALSE, response)>>
    IN  IF response.status_code = 404
            THEN Outcome([s EXCEPT !._exists = False], None, "None", Tail(rs), sent)
        ELSE IF IsHTTPError(response)
            THEN Outcome(s, None, "HTTPError", Tail(rs), sent)
        ELSE LET data == response.json
                 isdir == ~ ("size" \in DOMAIN data)
             IN  Outcome([s EXCEPT !._exists = True,
                                   !._is_dir = Some(isdir),
                                   !._size = Some(IF isdir THEN 0 ELSE int(data.size)),
                                   !._children = Some(get_children(data, <<>>))],
                         None, "None", Tail(rs), sent)

\* a step that sends nothing and raises nothing
Skip(self, rs) == Outcome(self, None, "None", rs, <<>>)

\* the outcome o followed by returning v, unless o raised
Return(o, v) == IF o.raised # "None" THEN o ELSE [o EXCEPT !.val = v]

\* the outcome o1 followed by the step that gave o2
Then(o1, o2) == [o2 EXCEPT !.sent = o1.sent \o o2.sent]

\* exists() without the memo test: it queries on every call
exists_unmemoized(self, rs) ==
    Return(_query(self, rs), _query(self, rs).self._exists)

exists(self, rs) ==
    LET o == IF self._exists = None THEN _query(self, rs) ELSE Skip(self, rs)
    IN  Return(o, o.self._exists)

is_dir(self, rs) ==
    LET e == exists(self, rs)
    IN  IF e.raised # "None" THEN e
        ELSE IF ~ Truthy(e.val) THEN Return(e, False)
        ELSE LET o == IF e.self._is_dir = None
                          THEN Then(e, _query(e.self, e.rs))
                          ELSE e
             IN  Return(o, o.self._is_dir)

\* Python's "not v"
not(v) == IF Truthy(v) THEN False ELSE True

is_file(self, rs) ==
    LET e == exists(self, rs)
    IN  IF e.raised # "None" THEN e
        ELSE IF ~ Truthy(e.val) THEN Return(e, False)
        ELSE LET o == IF e.self._is_dir = None
                          THEN Then(e, _query(e.self, e.rs))
                          ELSE e
             IN  Return(o, not(o.self._is_dir))

\* is_symlink() that asks the server first
is_symlink_asks(self, rs) == Return(_query(self, rs), False)

is_symlink(self, rs) == Return(Skip(self, rs), False)

size(self, rs) ==
    LET o == IF self._size = None THEN _query(self, rs) ELSE Skip(self, rs)
    IN  Return(o, o.self._size)

\* a pair whose info keeps the URI of the parent
ChildPair_parent_uri(self, child) ==
    [name |-> child.uri,
     info |-> ArtifactoryPathInfo(self._uri, True, Some(child.folder))]

\* a pair whose info is not seeded from the listing
ChildPair_unseeded(self, child) ==
    [name |-> child.uri,
     info |-> ArtifactoryPathInfo(self._uri \o child.uri, None, None)]

\* one (name, info) pair yielded by children()
ChildPair(self, child) ==
    [name |-> child.uri,
     info |-> ArtifactoryPathInfo(self._uri \o child.uri, True, Some(child.folder))]

\* children(), iterated to exhaustion: the list of the pairs it yields;
\* iterating over None raises TypeError
children(self, rs) ==
    LET o == IF self._children = None THEN _query(self, rs) ELSE Skip(self, rs)
    IN  IF o.raised # "None" THEN o
        ELSE IF o.self._children = None THEN [o EXCEPT !.raised = "TypeError"]
        ELSE LET list == o.self._children[1]
             IN  Return(o, Some([i \in 1..Len(list) |-> ChildPair(o.self, list[i])]))

-----------------------------------------------------------------------------
(* ArtifactoryPath, release 0.4.1 *)

\* ArtifactoryPath(*pathsegments, base_uri=..., info=...); history only:
\* g_depth counts the directory levels between this path and the first
\* one, g_entry is the listing entry iterdir() made this path from
ArtifactoryPath(pathsegments, base, i) ==
    [_segments |-> pathsegments, base_uri |-> base, _info |-> i,
     g_depth |-> 0, g_entry |-> None]

__vfspath__(self) ==
    IF self._segments # <<>>
        THEN posixpath_join(Head(self._segments), Tail(self._segments))
        ELSE <<>>

as_uri(self) == self.base_uri \o __vfspath__(self)

\* from_uri() that does not put the "/" back in front of the tail
from_uri_no_slash(u) ==
    LET pieces == split1(u, Marker)
    IN  IF Len(pieces) # 2 THEN [raised |-> "ValueError"]
        ELSE [raised |-> "None",
              path |-> ArtifactoryPath(<< pieces[2] >>,
                                       pieces[1] \o <<"/", "artifactory">>, None)]

\* from_uri(uri): unpacking a split without the marker raises ValueError
from_uri(u) ==
    LET pieces == split1(u, Marker)
    IN  IF Len(pieces) # 2 THEN [raised |-> "ValueError"]
        ELSE LET head == pieces[1]
                 tail == pieces[2]
             IN  [raised |-> "None",
                  path |-> ArtifactoryPath(<< <<"/">> \o tail >>,
                                           head \o <<"/", "artifactory">>, None)]

with_segments(self, pathsegments, i) ==
    [ArtifactoryPath(pathsegments, self.base_uri, i) EXCEPT !.g_depth = self.g_depth + 1]

\* the metadata URI a path computes for itself
StorageUri(self) == self.base_uri \o ApiStorage \o __vfspath__(self)

\* the info property: the path after the access (self.info is its _info[1])
info(self) ==
    IF self._info = None
        THEN [self EXCEPT !._info = Some(ArtifactoryPathInfo(StorageUri(self), None, None))]
        ELSE self

\* isinstance(x, ArtifactoryPath)
IsArtifactoryPath(x) == "base_uri" \in DOMAIN x

\* the code of a word in a string
TokenCode(t) ==
    CASE t = "/" -> 47
      [] t = "h" -> 104
      [] t = "g" -> 103
      [] t = "artifactory" -> 97
      [] t = "repo" -> 114
      [] t = "dir" -> 100
      [] OTHER -> 120

HashModulus == 65536

\* hash(s) of a string: a function of its characters, of bounded width
RECURSIVE StrHash(_)
StrHash(s) ==
    IF s = <<>> THEN 0
    ELSE (StrHash(SubSeq(s, 1, Len(s) - 1)) * 31 + TokenCode(s[Len(s)])) % HashModulus

\* hash((a, b)) of a pair of strings
TupleHash(a, b) == (StrHash(a) * 1009 + StrHash(b)) % HashModulus

\* __hash__() over the first segment in place of the rendered path
hash_of_first_segment(self) ==
    TupleHash(self.base_uri, IF self._segments = <<>> THEN <<>> ELSE Head(self._segments))

__hash__(self) == TupleHash(self.base_uri, __vfspath__(self))

\* the outcome of a == b; raised is "NotImplemented" when that is returned
EqOutcome(val, raised) == [val |-> val, raised |-> raised]

\* __eq__() that compares the segments in place of the rendered path
eq_by_segments(self, x) ==
    IF ~ IsArtifactoryPath(x) THEN EqOutcome(None, "NotImplemented")
    ELSE EqOutcome(Some(self.base_uri = x.base_uri /\ self._segments = x._segments), "None")

__eq__(self, x) ==
    IF ~ IsArtifactoryPath(x) THEN EqOutcome(None, "NotImplemented")
    ELSE EqOutcome(Some(self.base_uri = x.base_uri /\ __vfspath__(self) = __vfspath__(x)),
                   "None")

\* the outcome of a path method: the path afterwards, the value returned,
\* the exception raised with its argument, the requests sent
PathOutcome(self, val, raised, arg, sent) ==
    [path |-> self, val |-> val, raised |-> raised, arg |-> arg, sent |-> sent]

\* a path method that delegates to method outcome o of self.info
Delegated(self, o) ==
    PathOutcome([self EXCEPT !._info = Some(o.self)], o.val, o.raised, None, o.sent)

\* iterdir() up to the return of the generator; val is True when a
\* generator is returned
iterdir(self, rs) ==
    IF self._info = None
        THEN PathOutcome(self, None, "AttributeError", None, <<>>)
    ELSE LET e == exists(self._info[1], rs)
             d == Then(e, is_dir(e.self, e.rs))
         IN  IF e.raised # "None" THEN Delegated(self, e)
             ELSE IF ~ Truthy(e.val)
                 THEN [Delegated(self, e) EXCEPT !.val = None, !.raised = "ENOENT",
                                                 !.arg = Some(as_uri(self))]
             ELSE IF d.raised # "None" THEN Delegated(self, d)
             ELSE IF ~ Truthy(d.val)
                 THEN [Delegated(self, d) EXCEPT !.val = None, !.raised = "ENOTDIR",
                                                 !.arg = Some(as_uri(self))]
             ELSE [Delegated(self, d) EXCEPT !.val = True]

\* the child paths the generator of iterdir() yields when iterated
iterdir_next(self, rs) ==
    LET o == children(self._info[1], rs)
        p == Delegated(self, o)
    IN  IF o.raised # "None" THEN p
        ELSE LET pairs == o.val[1]
             IN  [p EXCEPT !.val = Some([i \in 1..Len(pairs) |->
                     [with_segments(self, << __vfspath__(self) \o pairs[i].name >>,
                                    Some(pairs[i].info))
                         EXCEPT !.g_entry = Some(o.self._children[1][i])]])]

readlink(self) == PathOutcome(self, None, "EINVAL", Some(as_uri(self)), <<>>)

\* __open_reader__() that reads from the metadata URI
open_reader_from_storage(self, response) ==
    LET sent == <<Request(self.base_uri \o ApiStorage \o __vfspath__(self), TRUE, response)>>
    IN  IF response.status_code = 404
            THEN PathOutcome(self, None, "ENOENT", Some(__vfspath__(self)), sent)
        ELSE IF IsHTTPError(response)
            THEN PathOutcome(self, None, "HTTPError", None, sent)
        ELSE PathOutcome(self, Some("SeekableResponse"), "None", None, sent)

__open_reader__(self, response) ==
    LET sent == <<Request(as_uri(self), TRUE, response)>>
    IN  IF response.status_code = 404
            THEN PathOutcome(self, None, "ENOENT", Some(__vfspath__(self)), sent)
        ELSE IF IsHTTPError(response)
            THEN PathOutcome(self, None, "HTTPError", None, sent)
        ELSE PathOutcome(self, Some("SeekableResponse"), "None", None, sent)

-----------------------------------------------------------------------------
(* ArtifactoryPath, the PathBase revision (src/pathlib_artifactory.py);   *)
(* str(self) renders the segments as __vfspath__ does                      *)

\* uri[1:]
DropFirst(s) == SubSeq(s, 2, Len(s))

\* ArtifactoryStat.from_storage_response(data): size, is_dir and children
\* (the timestamps, authors and checksums are carried along unchanged)
from_storage_response(data) ==
    [size |-> IF "size" \in DOMAIN data THEN int(data.size) ELSE 0,
     is_dir |-> ~ ("size" \in DOMAIN data),
     children |-> IF "children" \in DOMAIN data
                      THEN Some([i \in 1..Len(data.children) |->
                                    DropFirst(data.children[i].uri)])
                      ELSE None]

stat(self, response) ==
    LET sent == <<Request(self.base_uri \o ApiStorage \o __vfspath__(self), FALSE, response)>>
    IN  IF response.status_code = 404
            THEN PathOutcome(self, None, "ENOENT", Some(__vfspath__(self)), sent)
        ELSE IF IsHTTPError(response)
            THEN PathOutcome(self, None, "HTTPError", None, sent)
        ELSE PathOutcome(self, Some(from_storage_response(response.json)),
                         "None", None, sent)

\* the modes open() is called with, as strings of characters
Modes == {<<"r">>, <<"r", "b">>, <<"r", "t">>, <<"w">>, <<"w", "b">>,
          <<"a">>, <<"x">>, <<"r", "+">>, <<"w", "+">>}

\* the filter with "+" among the characters it drops
ModeAction_drops_plus(mode) == SelectSeq(mode, LAMBDA c : c \notin {"b", "t", "U", "+"})

\* ''.join(c for c in mode if c not in 'btU')
ModeAction(mode) == SelectSeq(mode, LAMBDA c : c \notin {"b", "t", "U"})

\* open(mode, buffering): meta and content are the answers of the two
\* endpoints, used when asked
open(self, mode, buffering, meta, content) ==
    IF buffering # -1
        THEN PathOutcome(self, None, "UnsupportedOperation", None, <<>>)
    ELSE IF ModeAction(mode) = <<"r">>
        THEN LET st == stat(self, meta)
                 sent == st.sent \o <<Request(self.base_uri \o __vfspath__(self), TRUE, content)>>
             IN  IF st.raised # "None" THEN st
                 ELSE IF st.val[1].is_dir
                     THEN PathOutcome(self, None, "EISDIR", Some(__vfspath__(self)), st.sent)
                 ELSE IF content.status_code = 404
                     THEN PathOutcome(self, None, "ENOENT", Some(__vfspath__(self)), sent)
                 ELSE IF IsHTTPError(content)
                     THEN PathOutcome(self, None, "HTTPError", None, sent)
                 ELSE PathOutcome(self,
                                  Some(IF "b" \in {mode[i] : i \in 1..Len(mode)}
                                           THEN "raw" ELSE "TextIOWrapper"),
                                  "None", None, sent)
    ELSE PathOutcome(self, None, "UnsupportedOperation", None, <<>>)

\* iterdir() of the PathBase revision: the rendered child paths
PathBase_iterdir(self, response) ==
    LET st == stat(self, response)
    IN  IF st.raised # "None" THEN st
        ELSE IF ~ st.val[1].is_dir
            THEN PathOutcome(self, None, "ENOTDIR", Some(__vfspath__(self)), st.sent)
        ELSE IF st.val[1].children = None
            THEN PathOutcome(self, None, "TypeError", None, st.sent)
        ELSE LET names == st.val[1].children[1]
             IN  PathOutcome(self,
                     Some([i \in 1..Len(names) |->
                              posixpath_join(__vfspath__(self), <<names[i]>>)]),
                     "None", None, st.sent)

-----------------------------------------------------------------------------
(* The calls a program makes on one ArtifactoryPath (release 0.4.1) *)

\* ArtifactoryPath.exists / is_dir / is_file, and size() and children()
\* asked of the path's info
path_exists(self, rs) == Delegated(info(self), exists(info(self)._info[1], rs))
path_is_dir(self, rs) == Delegated(info(self), is_dir(info(self)._info[1], rs))
path_is_file(self, rs) == Delegated(info(self), is_file(info(self)._info[1], rs))
path_is_symlink(self, rs) == Delegated(info(self), is_symlink(info(self)._info[1], rs))
info_size(self, rs) == Delegated(info(self), size(info(self)._info[1], rs))
info_children(self, rs) == Delegated(info(self), children(info(self)._info[1], rs))

\* Every outcome a call can have, over the answers of the server to the
\* requests it sends (a call sends at most two)
Runs(op(_, _), self) ==
    LET any == CHOOSE r \in Responses : TRUE
    IN  IF op(self, <<any, any>>).sent = <<>>
            THEN {op(self, <<any, any>>)}
            ELSE UNION {IF Len(op(self, <<r1, r1>>).sent) = 1
                            THEN {op(self, <<r1, r1>>)}
                            ELSE {op(self, <<r1, r2>>) : r2 \in Responses}
                        : r1 \in Responses}

\* metadata GETs the status cache of a path has sent, and those answered
Gets(self) == IF self._info = None THEN 0 ELSE self._info[1].g_gets
Answered(self) == IF self._info = None THEN 0 ELSE self._info[1].g_answered

\* the path after a call of exists/is_dir/is_file, with that call's GETs
\* added to the history of the three questions
Asked3(before, after) ==
    [after EXCEPT !._info = Some([after._info[1] EXCEPT
                        !.g_gets3 = @ + (Gets(after) - Gets(before)),
                        !.g_answered3 = @ + (Answered(after) - Answered(before))])]

Idle == [op |-> "none", val |-> None, raised |-> "None", arg |-> None]

Returned(op, o) ==
    /\ ret' = [op |-> op, val |-> o.val, raised |-> o.raised, arg |-> o.arg]
    /\ reqs' = o.sent

\* the paths a program constructs: with no info, or with an info seeded
\* in any way
ConstructedSegments == {<< <<"/", "repo">> >>}

\* the infos a program may hand to the constructor for the path segs
SeededInfos(segs) ==
    {Some(ArtifactoryPathInfo(BASE_URI \o ApiStorage \o Head(segs), e, d)) :
        e \in {None, True, False}, d \in {None, True, False}}

\* an info made for a location of another server
ForeignInfos(segs) ==
    {Some(ArtifactoryPathInfo(<<"g", "/", "artifactory">> \o ApiStorage \o Head(segs),
                              True, True))}

ConstructedPaths ==
    UNION {{ArtifactoryPath(segs, BASE_URI, i) : i \in {None} \cup SeededInfos(segs)}
           : segs \in ConstructedSegments}

Init ==
    /\ lazy = FALSE
    /\ cur \in ConstructedPaths
    /\ gen = FALSE
    /\ yielded = <<>>
    /\ ret = Idle
    /\ reqs = <<>>
    /\ other = None
    /\ uri = <<>>
    /\ parsed = None
    /\ rendered = None

Info ==
    /\ cur' = info(cur)
    /\ ret' = [Idle EXCEPT !.op = "info"]
    /\ reqs' = <<>>
    /\ UNCHANGED <<gen, yielded, other, uri, parsed, rendered, lazy>>

Question3(name, op(_, _)) ==
    \E o \in Runs(op, cur) :
        /\ Gets(o.path) <= MaxGets
        /\ cur' = Asked3(cur, o.path)
        /\ Returned(name, o)
        /\ UNCHANGED <<gen, yielded, other, uri, parsed, rendered, lazy>>

Exists == Question3("exists", path_exists)
IsDir == Question3("is_dir", path_is_dir)
IsFile == Question3("is_file", path_is_file)

Question(name, op(_, _)) ==
    \E o \in Runs(op, cur) :
        /\ Gets(o.path) <= MaxGets
        /\ cur' = o.path
        /\ Returned(name, o)
        /\ UNCHANGED <<gen, yielded, other, uri, parsed, rendered, lazy>>

Size == Question("size", info_size)
Children == Question("children", info_children)

IterDir ==
    \E o \in Runs(iterdir, cur) :
        /\ Gets(o.path) <= MaxGets
        /\ cur' = o.path
        /\ Returned("iterdir", o)
        /\ gen' = (gen \/ o.raised = "None")
        /\ UNCHANGED <<yielded, other, uri, parsed, rendered, lazy>>

\* iterating a generator that iterdir() returned
IterNext ==
    /\ gen
    /\ \E o \in Runs(iterdir_next, cur) :
        /\ Gets(o.path) <= MaxGets
        /\ cur' = o.path
        /\ Returned("next", [o EXCEPT !.val = None])
        /\ yielded' = IF o.raised = "None" THEN o.val[1] ELSE <<>>
        /\ gen' = FALSE
        /\ UNCHANGED <<other, uri, parsed, rendered, lazy>>

\* the program goes on with one of the yielded children
Descend ==
    \E i \in 1..Len(yielded) :
        /\ yielded[i].g_depth <= MaxDepth
        /\ cur' = yielded[i]
        /\ gen' = FALSE
        /\ yielded' = <<>>
        /\ ret' = Idle
        /\ reqs' = <<>>
        /\ UNCHANGED <<other, uri, parsed, rendered, lazy>>

IsSymlink == Question("is_symlink", path_is_symlink)

Readlink ==
    /\ Returned("readlink", readlink(cur))
    /\ UNCHANGED <<cur, gen, yielded, other, uri, parsed, rendered, lazy>>

OpenReader ==
    \E response \in ContentResponses :
        /\ Returned("open_reader", __open_reader__(cur, response))
        /\ UNCHANGED <<cur, gen, yielded, other, uri, parsed, rendered, lazy>>

Next ==
    \/ Info
    \/ Exists
    \/ IsDir
    \/ IsFile
    \/ Size
    \/ Children
    \/ IterDir
    \/ IterNext
    \/ Descend
    \/ OpenReader
    \/ IsSymlink
    \/ Readlink

Spec == Init /\ [][Next]_vars

-----------------------------------------------------------------------------
(* The calls on an ArtifactoryPath of the PathBase revision, which keeps *)
(* no state between calls                                                 *)

Stat ==
    \E response \in Responses :
        /\ Returned("stat", stat(cur, response))
        /\ UNCHANGED <<cur, gen, yielded, other, uri, parsed, rendered, lazy>>

Open ==
    \E mode \in Modes, buffering \in {-1, 0},
       meta \in Responses, content \in ContentResponses :
        /\ Returned("open", [open(cur, mode, buffering, meta, content)
                                EXCEPT !.arg = <<@, mode, buffering>>])
        /\ UNCHANGED <<cur, gen, yielded, other, uri, parsed, rendered, lazy>>

PathBaseIterDir ==
    \E response \in Responses :
        /\ Returned("PathBase.iterdir", PathBase_iterdir(cur, response))
        /\ UNCHANGED <<cur, gen, yielded, other, uri, parsed, rendered, lazy>>

InitPathBase ==
    /\ lazy = FALSE
    /\ cur \in {ArtifactoryPath(segs, BASE_URI, None) :
                   segs \in {<< <<"/", "repo">> >>, << <<"/", "repo", "/">> >>}}
    /\ gen = FALSE
    /\ yielded = <<>>
    /\ ret = Idle
    /\ reqs = <<>>
    /\ other = None
    /\ uri = <<>>
    /\ parsed = None
    /\ rendered = None

NextPathBase ==
    \/ Stat
    \/ Open
    \/ PathBaseIterDir

SpecPathBase == InitPathBase /\ [][NextPathBase]_vars

-----------------------------------------------------------------------------
(* from_uri() and as_uri() on the strings of at most MaxLen tokens *)

Alphabet == {"/", "artifactory", "x"}

Strings == UNION {[1..n -> Alphabet] : n \in 0..MaxLen}

InitUri ==
    /\ lazy = FALSE
    /\ cur = ArtifactoryPath(<< <<"/", "repo">> >>, BASE_URI, None)
    /\ gen = FALSE
    /\ yielded = <<>>
    /\ ret = Idle
    /\ reqs = <<>>
    /\ other = None
    /\ uri \in Strings
    /\ parsed = None
    /\ rendered = None

FromUri ==
    /\ parsed = None
    /\ parsed' = Some(from_uri(uri))
    /\ UNCHANGED <<cur, gen, yielded, ret, reqs, other, uri, rendered, lazy>>

AsUri ==
    /\ parsed # None
    /\ parsed[1].raised = "None"
    /\ rendered = None
    /\ rendered' = Some(as_uri(parsed[1].path))
    /\ UNCHANGED <<cur, gen, yielded, ret, reqs, other, uri, parsed, lazy>>

NextUri ==
    \/ FromUri
    \/ AsUri

SpecUri == InitUri /\ [][NextUri]_vars

-----------------------------------------------------------------------------
(* Comparing and hashing two ArtifactoryPath objects *)

OTHER_BASE_URI == <<"g", "/", "artifactory">>

\* ways of writing paths as segments; several render to the same string
ComparedSegments ==
    {<< <<"/", "repo", "/", "dir">> >>,
     << <<"/", "repo">>, <<"dir">> >>,
     << <<"/", "repo", "/">>, <<"dir">> >>,
     << <<"/", "x">>, <<"/", "repo", "/", "dir">> >>,
     << <<"/", "repo">> >>,
     << <<"/", "repo", "/", "dir", "/">> >>,
     <<>>}

\* the paths compared: without a status cache or with one that knows a kind
ComparedPaths ==
    UNION {{ArtifactoryPath(segs, base, None),
            ArtifactoryPath(segs, base,
                Some(ArtifactoryPathInfo(base \o ApiStorage, True, False)))}
           : segs \in ComparedSegments, base \in {BASE_URI, OTHER_BASE_URI}}

\* an object that is not an ArtifactoryPath
NotAPath == [str |-> <<"/", "repo">>]

InitEq ==
    /\ lazy = FALSE
    /\ cur \in ComparedPaths
    /\ gen = FALSE
    /\ yielded = <<>>
    /\ ret = Idle
    /\ reqs = <<>>
    /\ other \in {Some(x) : x \in ComparedPaths \cup {NotAPath}}
    /\ uri = <<>>
    /\ parsed = None
    /\ rendered = None

\* cur == other
Eq ==
    /\ ret' = [op |-> "eq", val |-> __eq__(cur, other[1]).val,
               raised |-> __eq__(cur, other[1]).raised, arg |-> None]
    /\ reqs' = <<>>
    /\ UNCHANGED <<cur, gen, yielded, other, uri, parsed, rendered, lazy>>

\* hash(cur) and hash(other)
Hash ==
    /\ IsArtifactoryPath(other[1])
    /\ ret' = [op |-> "hash", val |-> <<__hash__(cur), __hash__(other[1])>>,
               raised |-> "None", arg |-> None]
    /\ reqs' = <<>>
    /\ UNCHANGED <<cur, gen, yielded, other, uri, parsed, rendered, lazy>>

NextEq ==
    \/ Eq
    \/ Hash

SpecEq == InitEq /\ [][NextEq]_vars

-----------------------------------------------------------------------------
(* Properties of the status cache *)

Three == {"exists", "is_dir", "is_file"}

\* the latest answer to a metadata GET of the path's status cache was 404
Last404(self) ==
    /\ self._info # None
    /\ self._info[1].g_last # None
    /\ self._info[1].g_last[1].status_code = 404

\* C1 as stated: for one status cache, all calls of exists(), is_dir() and
\* is_file() together send at most one metadata GET.
C1_AtMostOneGet ==
    cur._info # None => cur._info[1].g_gets3 <= 1

\* C1 amended: for one status cache, all calls of exists(), is_dir() and
\* is_file() together send at most one metadata GET that is answered with
\* 2xx or 404 (a GET answered otherwise raises and is sent again by the
\* next call).
C1_AtMostOneAnsweredGet ==
    cur._info # None => cur._info[1].g_answered3 <= 1

\* a call of the three that sent nothing, after a failed and an answered GET
C1_Witness ==
    /\ cur._info # None
    /\ cur._info[1].g_gets3 = 2
    /\ cur._info[1].g_answered3 = 1
    /\ ret.op \in Three
    /\ reqs = <<>>

\* C2: for one status cache, all calls of exists(), is_dir(), is_file(),
\* size() and children() together send at most one metadata GET when every
\* answer is a 2xx file, a 2xx directory or a 404.
C2_AtMostOneGetOfFive ==
    (cur._info # None /\ cur._info[1].g_gets = cur._info[1].g_answered)
        => cur._info[1].g_gets <= 1

\* C3: when the latest answer to the metadata query is 404, the exists()
\* that received it returns False, and every later exists(), is_dir() and
\* is_file() returns False and sends no request.
C3_FalseAfter404 ==
    /\ [](ret.op = "exists" /\ Last404(cur) => ret.val = False)
    /\ [][(Last404(cur) /\ ret'.op \in Three)
            => (ret'.val = False /\ ret'.raised = "None" /\ reqs' = <<>>)]_vars

\* is_dir() answered False without a request after a 404
C3_Witness ==
    /\ Last404(cur)
    /\ ret.op = "is_dir"
    /\ ret.val = False
    /\ reqs = <<>>

\* the latest answer to a metadata GET of the path's status cache was 2xx
Last2xx(self) ==
    /\ self._info # None
    /\ self._info[1].g_last # None
    /\ self._info[1].g_last[1].status_code = 200

\* the "children" array of a JSON body, empty when the key is absent
ListingOf(data) == IF "children" \in DOMAIN data THEN data.children ELSE <<>>

\* C4: iterating iterdir() yields one child path per entry of the listing
\* response, in listing order, named by the entry's relative name below
\* the directory, with a status cache seeded exists=True, is_dir=folder that
\* has sent nothing; on such a child exists(), is_dir() and is_file() never
\* send a metadata GET, and while none was sent for the child they return
\* True, folder and not folder.
C4_ChildrenSeededFromListing ==
    /\ (ret.op = "next" /\ ret.raised = "None") =>
        /\ Last2xx(cur)
        /\ LET listing == ListingOf(cur._info[1].g_last[1].json)
           IN  /\ Len(yielded) = Len(listing)
               /\ \A i \in 1..Len(yielded) :
                    /\ posixpath_basename(__vfspath__(yielded[i])) = DropFirst(listing[i].uri)
                    /\ __vfspath__(yielded[i]) = __vfspath__(cur) \o listing[i].uri
                    /\ yielded[i]._info # None
                    /\ yielded[i]._info[1]._exists = True
                    /\ yielded[i]._info[1]._is_dir = Some(listing[i].folder)
                    /\ yielded[i]._info[1].g_gets = 0
    /\ cur.g_entry # None =>
        /\ cur._info # None
        /\ cur._info[1].g_gets3 = 0
        /\ (ret.op \in Three /\ Gets(cur) = 0) =>
            /\ ret.raised = "None"
            /\ reqs = <<>>
            /\ ret.op = "exists" => ret.val = True
            /\ ret.op = "is_dir" => ret.val = Some(cur.g_entry[1].folder)
            /\ ret.op = "is_file" => ret.val = Some(~ cur.g_entry[1].folder)

\* the child made from the entry {uri: "/b", folder: false} answered
\* is_file() with True and has sent nothing
C4_Witness ==
    /\ cur.g_entry = Some([uri |-> <<"/", "b">>, folder |-> FALSE])
    /\ ret.op = "is_file"
    /\ ret.val = True
    /\ Gets(cur) = 0

\* C5: when the latest metadata answer is 2xx, the kind follows from the
\* presence of "size" alone: with it is_file() is True, is_dir() is False,
\* size() is its value and children() yields nothing; without it is_dir()
\* is True, is_file() is False, size() is 0 and children() yields exactly
\* the entries of the "children" array.
C5_KindFromSizeKey ==
    Last2xx(cur) =>
        LET data == cur._info[1].g_last[1].json
            file == "size" \in DOMAIN data
            listing == IF file THEN <<>> ELSE ListingOf(data)
        IN  /\ ret.op \in Three \cup {"size", "children"} => ret.raised = "None"
            /\ ret.op = "exists" => ret.val = True
            /\ ret.op = "is_file" => ret.val = Some(file)
            /\ ret.op = "is_dir" => ret.val = Some(~ file)
            /\ ret.op = "size" =>
                   ret.val = Some(IF ~ file THEN 0
                                  ELSE IF data.size = "42" THEN 42
                                  ELSE 0)
            /\ ret.op = "children" =>
                /\ Len(ret.val[1]) = Len(listing)
                /\ \A i \in 1..Len(listing) :
                    /\ ret.val[1][i].name = listing[i].uri
                    /\ ret.val[1][i].info._is_dir = Some(listing[i].folder)

\* children() yielded the two entries of a directory answer
C5_Witness ==
    /\ Last2xx(cur)
    /\ "size" \notin DOMAIN cur._info[1].g_last[1].json
    /\ ret.op = "children"
    /\ ret.raised = "None"
    /\ Len(ret.val[1]) = 2

-----------------------------------------------------------------------------
(* Properties of from_uri() and as_uri() *)

\* the 0-based indexes at which the marker occurs in s
MarkerAt(s) == {k \in 0..(Len(s) - Len(Marker)) : SubSeq(s, k + 1, k + Len(Marker)) = Marker}

\* C6: for every uri that contains the marker, from_uri(uri) succeeds and
\* from_uri(uri).as_uri() is uri.
C6_RoundTrip ==
    /\ (parsed # None /\ MarkerAt(uri) # {}) => parsed[1].raised = "None"
    /\ rendered # None => rendered[1] = uri

\* a round trip of a uri with two markers that ends with "/"
C6_Witness ==
    /\ rendered # None
    /\ Cardinality(MarkerAt(uri)) >= 2
    /\ uri[Len(uri)] = "/"

\* from_uri(uri) gave base_uri head + "/artifactory" and path "/" + tail
ParsedAs(head, tail) ==
    /\ parsed[1].raised = "None"
    /\ parsed[1].path.base_uri = head \o <<"/", "artifactory">>
    /\ __vfspath__(parsed[1].path) = <<"/">> \o tail

\* C7 as stated: for uri = head + marker + tail where head does not
\* contain the marker, from_uri(uri) has base_uri head + "/artifactory" and
\* path "/" + tail.
C7_SplitAtHead ==
    parsed # None =>
        \A k \in MarkerAt(uri) :
            MarkerAt(SubSeq(uri, 1, k)) = {}
                => ParsedAs(SubSeq(uri, 1, k), SubSeq(uri, k + Len(Marker) + 1, Len(uri)))

\* C7 amended: for uri = head + marker + tail where head + "/artifactory"
\* does not contain the marker, from_uri(uri) has base_uri
\* head + "/artifactory" and path "/" + tail, the tail kept as it is.
C7_SplitAtFirstMarker ==
    parsed # None =>
        \A k \in MarkerAt(uri) :
            MarkerAt(SubSeq(uri, 1, k) \o <<"/", "artifactory">>) = {}
                => ParsedAs(SubSeq(uri, 1, k), SubSeq(uri, k + Len(Marker) + 1, Len(uri)))

\* from_uri() of a uri whose tail holds the marker again and ends with "/"
C7_Witness ==
    /\ parsed # None
    /\ parsed[1].raised = "None"
    /\ Cardinality(MarkerAt(uri)) >= 2
    /\ uri[Len(uri)] = "/"
    /\ MarkerAt(SubSeq(uri, 1, find(uri, Marker)) \o <<"/", "artifactory">>) = {}

-----------------------------------------------------------------------------
(* Properties of opening and listing *)

KnownDirectory(self) ==
    /\ self._info # None
    /\ self._info[1]._exists = True
    /\ self._info[1]._is_dir = True

KnownFile(self) ==
    /\ self._info # None
    /\ self._info[1]._exists = True
    /\ self._info[1]._is_dir = False

KnownMissing(self) ==
    /\ self._info # None
    /\ self._info[1]._exists = False

\* C8: opening for reading a path whose kind is directory fails with "is a
\* directory" and sends no content GET.
C8_OpenDirectoryFails ==
    (ret.op = "open_reader" /\ KnownDirectory(cur)) =>
        /\ ret.raised = "EISDIR"
        /\ \A i \in 1..Len(reqs) : ~ reqs[i].stream

\* what iterdir() does after a single metadata answer
IterdirOutcomeFor(status, file) ==
    IF status = 404 THEN "ENOENT"
    ELSE IF status # 200 THEN "HTTPError"
    ELSE IF file THEN "ENOTDIR"
    ELSE "None"

\* C9: iterdir() fails with "not found" on a path known not to exist and
\* with "not a directory" on a path known to be a file, both without a
\* request; on a path that has no status cache yet it sends exactly one
\* metadata GET and then fails or returns the children by the answer.
C9_IterdirFailures ==
    [][ret'.op = "iterdir" =>
        /\ KnownMissing(cur) => (ret'.raised = "ENOENT" /\ reqs' = <<>>)
        /\ KnownFile(cur) => (ret'.raised = "ENOTDIR" /\ reqs' = <<>>)
        /\ cur._info = None =>
            /\ Len(reqs') = 1
            /\ ~ reqs'[1].stream
            /\ Last2xx(cur') \/ Last404(cur') \/ ret'.raised = "HTTPError"
            /\ ret'.raised = IterdirOutcomeFor(reqs'[1].status_code, KnownFile(cur'))
      ]_vars

\* C10: __open_reader__() sends one streaming GET to base_uri + path, which
\* is not the metadata URI of the path; when it is answered 404 the call
\* raises ENOENT carrying the path string and returns no stream.
C10_OpenNotFound ==
    ret.op = "open_reader" =>
        /\ Len(reqs) = 1
        /\ reqs[1].stream
        /\ reqs[1].uri = cur.base_uri \o __vfspath__(cur)
        /\ reqs[1].uri # cur.base_uri \o ApiStorage \o __vfspath__(cur)
        /\ reqs[1].status_code = 404 =>
            /\ ret.raised = "ENOENT"
            /\ ret.arg = Some(__vfspath__(cur))
            /\ ret.val = None

\* an open for reading that was answered 404
C10_Witness ==
    /\ ret.op = "open_reader"
    /\ reqs[1].status_code = 404
    /\ ret.raised = "ENOENT"

-----------------------------------------------------------------------------
(* Properties of open() of the PathBase revision *)

\* the mode writes, appends, creates or updates
WritesOrUpdates(mode) == \E i \in 1..Len(mode) : mode[i] \in {"w", "a", "x", "+"}

\* C11: open() in a mode whose action is not plain read (write, append,
\* exclusive create, read-write) fails as an unsupported operation and
\* sends no HTTP request, whatever the endpoints would answer.
C11_WriteModesUnsupported ==
    (ret.op = "open" /\ WritesOrUpdates(ret.arg[2])) =>
        /\ ret.raised = "UnsupportedOperation"
        /\ ret.val = None
        /\ reqs = <<>>

\* open('r+') was refused
C11_Witness ==
    /\ ret.op = "open"
    /\ ret.arg[2] = <<"r", "+">>
    /\ ret.arg[3] = -1
    /\ ret.raised = "UnsupportedOperation"

-----------------------------------------------------------------------------
(* Properties of == and hash() *)

\* C12: two paths are equal exactly when their base URIs are equal and
\* their rendered path strings are equal, however the segments are split
\* and whatever their status caches hold; equal paths have equal hashes.
C12_EqualityAndHash ==
    /\ (ret.op = "eq" /\ IsArtifactoryPath(other[1])) =>
        /\ ret.raised = "None"
        /\ ret.val \in {True, False}
        /\ ret.val = True <=>
              /\ cur.base_uri = other[1].base_uri
              /\ __vfspath__(cur) = __vfspath__(other[1])
    /\ (ret.op = "hash" /\ cur.base_uri = other[1].base_uri
            /\ __vfspath__(cur) = __vfspath__(other[1])) =>
        ret.val[1] = ret.val[2]

\* two paths split differently, one with and one without a status cache,
\* compared equal
C12_Witness ==
    /\ ret.op = "eq"
    /\ ret.val = True
    /\ cur._segments # other[1]._segments
    /\ cur._info # other[1]._info

-----------------------------------------------------------------------------
(* Properties of the fields of the status cache *)

CacheFields == {"_exists", "_is_dir", "_size", "_children"}

\* C13: once a field of a status cache has a known value, seeded or
\* received, no later call on that cache changes it.
C13_KnownFieldsFrozen ==
    [][(cur._info # None /\ cur'._segments = cur._segments) =>
        \A f \in CacheFields :
            cur._info[1][f] # None => cur'._info[1][f] = cur._info[1][f]
      ]_vars

\* C14: once a 404 has told the status cache that the path does not exist,
\* size() and children() raise: they return no value and send no request.
C14_ErrorAfter404 ==
    [][(Last404(cur) /\ ret'.op \in {"size", "children"}) =>
        /\ ret'.raised # "None"
        /\ reqs' = <<>>
      ]_vars

\* the calls that may send a metadata GET
CacheCalls == Three \cup {"size", "children", "iterdir", "next"}

\* C15: a call whose metadata GET is answered neither 2xx nor 404 fails
\* with the transport failure, has sent exactly that one request, and
\* leaves every field of the status cache as it was before the call (as
\* created, when the call created the cache).
C15_TransportFailure ==
    /\ []((ret.op \in CacheCalls
              /\ \E i \in 1..Len(reqs) : reqs[i].status_code \notin {200, 404})
            => ret.raised = "HTTPError")
    /\ [][(ret'.op \in CacheCalls /\ ret'.raised = "HTTPError") =>
            /\ Len(reqs') = 1
            /\ reqs'[1].status_code \notin {200, 404}
            /\ ret'.val = None
            /\ \A f \in CacheFields : cur'._info[1][f] = info(cur)._info[1][f]
         ]_vars

\* is_dir() failed on a 500 and existence is still unknown
C15_Witness ==
    /\ ret.op = "is_dir"
    /\ ret.raised = "HTTPError"
    /\ reqs[1].status_code = 500
    /\ cur._info[1]._exists = None

-----------------------------------------------------------------------------
(* Properties of listing again *)

\* the names and kinds of a sequence of yielded child paths
NamesAndKinds(paths) ==
    [i \in 1..Len(paths) |->
        [name |-> posixpath_basename(__vfspath__(paths[i])),
         folder |-> paths[i]._info[1]._is_dir]]

\* the names and kinds of the entries of a listing
EntryNamesAndKinds(listing) ==
    [i \in 1..Len(listing) |->
        [name |-> DropFirst(listing[i].uri), folder |-> Some(listing[i].folder)]]

\* C16: iterdir() can be invoked on a directory path any number of times:
\* no invocation fails for want of a status cache, every iteration yields
\* the names and kinds of the one listing received, and once the listing
\* is held (empty or not) invoking and iterating send no request.
C16_IterdirAgain ==
    [][/\ ret'.op = "iterdir" => ret'.raised # "AttributeError"
       /\ (ret'.op \in {"iterdir", "next"} /\ cur._info # None
               /\ cur._info[1]._children # None) =>
            /\ reqs' = <<>>
            /\ (ret'.op = "next" /\ ret'.raised = "None") =>
                 NamesAndKinds(yielded') = EntryNamesAndKinds(cur._info[1]._children[1])
      ]_vars

-----------------------------------------------------------------------------
(* Properties of symbolic links *)

\* C17: is_symlink() returns False and readlink() fails with "not a
\* symlink" in every state of the path; neither sends an HTTP request nor
\* changes a field of the status cache (is_symlink() at most creates it).
C17_NoSymlinks ==
    [][/\ ret'.op = "is_symlink" =>
            /\ ret'.val = False
            /\ ret'.raised = "None"
            /\ reqs' = <<>>
            /\ cur' = info(cur)
       /\ ret'.op = "readlink" =>
            /\ ret'.raised = "EINVAL"
            /\ ret'.val = None
            /\ reqs' = <<>>
            /\ cur' = cur
      ]_vars

\* is_symlink() answered on a path whose status cache knows nothing yet
C17_Witness ==
    /\ ret.op = "is_symlink"
    /\ ret.val = False
    /\ cur._info # None
    /\ cur._info[1]._exists = None
    /\ Gets(cur) = 0

-----------------------------------------------------------------------------
(* The walk: a tree is walked from a path that has no status cache yet or
   was given one made for another location; lazy records that the info
   property made the cache at the top of the walk *)

WalkedPaths ==
    UNION {{ArtifactoryPath(segs, BASE_URI, i) : i \in {None} \cup ForeignInfos(segs)}
           : segs \in ConstructedSegments}

InitWalk ==
    /\ cur \in WalkedPaths
    /\ lazy = FALSE
    /\ gen = FALSE
    /\ yielded = <<>>
    /\ ret = Idle
    /\ reqs = <<>>
    /\ other = None
    /\ uri = <<>>
    /\ parsed = None
    /\ rendered = None

WalkInfo ==
    /\ cur' = info(cur)
    /\ lazy' = (lazy \/ cur._info = None)
    /\ ret' = [Idle EXCEPT !.op = "info"]
    /\ reqs' = <<>>
    /\ UNCHANGED <<gen, yielded, other, uri, parsed, rendered>>

NextWalk ==
    \/ WalkInfo
    \/ IterDir
    \/ IterNext
    \/ Descend

SpecWalk == InitWalk /\ [][NextWalk]_vars

-----------------------------------------------------------------------------
(* Properties of the metadata URI along a walk *)

\* the status cache of the path asks the URI the path computes for itself
AsksOwnUri(self) ==
    /\ self._info # None
    /\ self._info[1]._uri = self.base_uri \o ApiStorage \o __vfspath__(self)

\* C18: along a walk that starts at a path whose status cache the info
\* property created, every child iterdir() yields, at every depth, has a
\* seeded status cache whose URI is base_uri + "/api/storage" + the
\* child's rendered path.
C18_ChildUri ==
    lazy =>
        /\ AsksOwnUri(cur)
        /\ \A i \in 1..Len(yielded) : AsksOwnUri(yielded[i])

\* the children of a child were yielded, two levels below the first path
C18_Witness ==
    /\ lazy
    /\ cur.g_depth = 1
    /\ Len(yielded) = 2
    /\ yielded[1].g_depth = 2
    /\ AsksOwnUri(yielded[1])

-----------------------------------------------------------------------------
(* Agreement of the answers of one status cache *)

\* the last call was the question op and it answered True
AnsweredTrue(r, op) == r.op = op /\ r.raised = "None" /\ r.val = True

\* C19: on any status cache, however seeded and whatever the server
\* answers, is_dir() and is_file() do not both return True, and an exists()
\* that immediately follows an is_dir() or is_file() that returned True
\* returns True.
C19_KindImpliesExists ==
    [][/\ AnsweredTrue(ret, "is_dir") => ~AnsweredTrue(ret', "is_file")
       /\ AnsweredTrue(ret, "is_file") => ~AnsweredTrue(ret', "is_dir")
       /\ (AnsweredTrue(ret, "is_dir") \/ AnsweredTrue(ret, "is_file")) /\ ret'.op = "exists"
            => AnsweredTrue(ret', "exists")
      ]_vars

====
